---- MODULE Spec2Model ----
(***************************************************************************)
(* Model of src/coba1/main.py ("Warung Makan Pintar"): the menu parser     *)
(* load_csv, the aggregator compute_totals with its coercion _to_number,   *)
(* the CSV/JSON exporters, and the script body that Streamlit re-runs on   *)
(* every interaction.                                                      *)
(*                                                                         *)
(* Python values are tagged records.  A Python str is a sequence of        *)
(* one-character strings, so that strip, the csv reader and the csv writer *)
(* work on characters as the library does.  A number is a pair (h, l)      *)
(* standing for the integer h * 2^53 + l; a float is such a pair that an   *)
(* IEEE-754 binary64 can hold, and float addition rounds to nearest-even.  *)
(***************************************************************************)
EXTENDS Integers, Sequences, FiniteSets, TLC

VARIABLES menu_rows, edited_rows, totals, total_all, data_valid,
          csv_file, json_file, warning, arg, ret, pc

vars == <<menu_rows, edited_rows, totals, total_all, data_valid,
          csv_file, json_file, warning, arg, ret, pc>>

appVars == <<menu_rows, edited_rows, totals, total_all, data_valid,
             csv_file, json_file, warning>>

-----------------------------------------------------------------------------
(* Bounds of the model.                                                    *)

\* Longest row sequence handed to compute_totals in SpecTotals.
MaxRows == 3
\* Most data lines of a text handed to load_csv in SpecParse.
MaxLines == 2
\* Longest row collection exported and re-parsed in SpecRoundTrip.
MaxExportRows == 2
\* Longest row collection the data editor holds in Spec.
MaxMenuRows == 5

-----------------------------------------------------------------------------
(* Python values.                                                          *)

PyNone == [t |-> "None"]
PyStr(s) == [t |-> "str", s |-> s]
PyInt(h, l) == [t |-> "int", h |-> h, l |-> l]
PyFloat(h, l) == [t |-> "float", h |-> h, l |-> l]

\* A small integer or float.
Int_(n) == PyInt(0, n)
Float_(n) == PyFloat(0, n)

\* x or y, for x a str or None: the falsy values are None and "".
Or(x, y) == IF x = PyNone \/ x = PyStr(<<>>) THEN y ELSE x

\* The characters str.strip() removes (ASCII whitespace).
Whitespace == {" ", "\t", "\n", "\r", "\f"}
Digits == <<"0", "1", "2", "3", "4", "5", "6", "7", "8", "9">>
DigitSet == {Digits[i] : i \in 1..10}
DigitVal(c) == (CHOOSE i \in 1..10 : Digits[i] = c) - 1

RECURSIVE lstrip(_)
lstrip(s) == IF s # <<>> /\ Head(s) \in Whitespace THEN lstrip(Tail(s)) ELSE s

RECURSIVE rstrip(_)
rstrip(s) ==
    IF s # <<>> /\ s[Len(s)] \in Whitespace
    THEN rstrip(SubSeq(s, 1, Len(s) - 1)) ELSE s

\* str.strip()
strip(s) == rstrip(lstrip(s))

-----------------------------------------------------------------------------
(* IEEE-754 binary64 on the non-negative integers h * 2^53 + l.  Below     *)
(* 2^53 every integer is a float; in [2^k * 2^53, 2^(k+1) * 2^53) the      *)
(* floats are the multiples of 2^(k+1).                                    *)

RECURSIVE Ulp(_)
Ulp(h) == IF h <= 1 THEN 2 ELSE 2 * Ulp(h \div 2)

\* The float nearest to h * 2^53 + l, ties to the even mantissa.
FRound(h, l) ==
    IF h = 0 THEN PyFloat(0, l)
    ELSE LET u == Ulp(h)
             r == l % u
             base == l - r
             up == \/ 2 * r > u
                   \/ 2 * r = u /\ (base \div u) % 2 = 1
         IN  PyFloat(h, IF up THEN base + u ELSE base)

\* a + b on floats a, b >= 0.
FAdd(a, b) == FRound(a.h + b.h, a.l + b.l)

\* v >= 0 on a float.
FNonNeg(v) == v.h > 0 \/ v.l >= 0

-----------------------------------------------------------------------------
(* float(s) and int(s) on a str.  Both strip whitespace, then accept an    *)
(* optional sign and decimal digits.  (Python's float also accepts         *)
(* fractions, exponents, "inf" and "nan", and both accept "_" between      *)
(* digits: the model's texts hold none of ".", "e", "_", "inf", "nan".)    *)

RECURSIVE DecimalValue(_, _)
DecimalValue(s, acc) ==
    IF s = <<>> THEN acc ELSE DecimalValue(Tail(s), 10 * acc + DigitVal(Head(s)))

AllDigits(s) == s # <<>> /\ \A i \in 1..Len(s) : s[i] \in DigitSet

\* [ok |-> FALSE] is ValueError.
ParseSigned(s) ==
    LET b == strip(s)
        signed == b # <<>> /\ Head(b) \in {"+", "-"}
        d == IF signed THEN Tail(b) ELSE b
    IN  IF ~AllDigits(d) THEN [ok |-> FALSE]
        ELSE [ok |-> TRUE,
              n |-> IF signed /\ Head(b) = "-"
                    THEN 0 - DecimalValue(d, 0) ELSE DecimalValue(d, 0)]

sNone == <<"N", "o", "n", "e">>

\* float(str(x).strip()), None for the ValueError.
float_of(x) ==
    CASE x.t = "int" -> FRound(x.h, x.l)
      [] x.t = "float" -> x
      [] x.t = "None" ->
            LET p == ParseSigned(strip(sNone))
            IN  IF p.ok THEN PyFloat(0, p.n) ELSE PyNone
      [] x.t = "str" ->
            LET p == ParseSigned(strip(x.s))
            IN  IF p.ok THEN PyFloat(0, p.n) ELSE PyNone

\* A variant of _to_number that lets negative values through.
to_number_keeps_negative(x) == float_of(x)

\* A variant of _to_number that reads an unreadable value as 0.0.
to_number_zero_default(x) ==
    LET v == float_of(x)
    IN  IF v = PyNone THEN PyFloat(0, 0) ELSE IF FNonNeg(v) THEN v ELSE PyNone

\* _to_number(x)
to_number(x) ==
    LET v == float_of(x)
    IN  IF v = PyNone THEN PyNone
        ELSE IF FNonNeg(v) THEN v ELSE PyNone

-----------------------------------------------------------------------------
(* compute_totals.  A dict is a sequence of [k, v] entries with distinct   *)
(* keys, in insertion order.                                               *)

sTidakDiketahui ==
    <<"T", "i", "d", "a", "k", " ", "d", "i", "k", "e", "t", "a", "h", "u", "i">>

DictKeys(d) == {d[i].k : i \in 1..Len(d)}

\* d.get(k, default)
DictGet(d, k, default) ==
    IF k \in DictKeys(d)
    THEN d[CHOOSE i \in 1..Len(d) : d[i].k = k].v
    ELSE default

\* d[k] = v
DictSet(d, k, v) ==
    IF k \in DictKeys(d)
    THEN [i \in 1..Len(d) |-> IF d[i].k = k THEN [k |-> k, v |-> v] ELSE d[i]]
    ELSE Append(d, [k |-> k, v |-> v])

\* A row is a dict with the keys kategori, nama, harga; r.get(key) of a
\* missing key is None, which the record holds as PyNone.
Row(kategori, nama, harga) ==
    [kategori |-> kategori, nama |-> nama, harga |-> harga]

\* A variant that does not strip the category.
category_unstripped(r) ==
    Or(Or(r.kategori, PyStr(<<>>)), PyStr(sTidakDiketahui)).s

\* (r.get("kategori") or "").strip() or "Tidak diketahui"
category_of(r) ==
    Or(PyStr(strip(Or(r.kategori, PyStr(<<>>)).s)), PyStr(sTidakDiketahui)).s

\* A variant of the loop body that stores the row's price as the category
\* total instead of adding it.
totals_step_overwrite(acc, r) ==
    LET cat == category_of(r)
        val == to_number(r.harga)
    IN  IF val = PyNone THEN acc
        ELSE [totals |-> DictSet(acc.totals, cat, val),
              total_all |-> FAdd(acc.total_all, val)]

\* The body of compute_totals' loop for row r, acc = [totals, total_all].
totals_step(acc, r) ==
    LET cat == category_of(r)
        val == to_number(r.harga)
    IN  IF val = PyNone THEN acc
        ELSE [totals |-> DictSet(acc.totals, cat,
                           FAdd(DictGet(acc.totals, cat, PyFloat(0, 0)), val)),
              total_all |-> FAdd(acc.total_all, val)]

\* The loop of compute_totals from row i on.  (Each accumulator is bound by
\* a one-element set so that it is computed once per iteration.)
RECURSIVE totals_loop(_, _, _)
totals_loop(rows, i, acc) ==
    IF i > Len(rows) THEN acc
    ELSE CHOOSE out \in {totals_loop(rows, i + 1, a) :
                            a \in {totals_step(acc, rows[i])}} : TRUE

\* compute_totals(rows)
compute_totals(rows) ==
    totals_loop(rows, 1, [totals |-> <<>>, total_all |-> PyFloat(0, 0)])

-----------------------------------------------------------------------------
(* load_csv: io.StringIO line iteration, csv.reader with delimiter ';'     *)
(* (quotechar '"', doublequote, no escapechar, not strict), csv.DictReader *)
(* and the row loop.                                                       *)

\* The lines io.StringIO yields from position start on: each ends with its
\* "\n", the last may not.
RECURSIVE lines_from(_, _)
lines_from(s, start) ==
    IF start > Len(s) THEN <<>>
    ELSE LET nl == {i \in start..Len(s) : s[i] = "\n"}
             end == IF nl = {} THEN Len(s)
                    ELSE CHOOSE i \in nl : \A j \in nl : i <= j
         IN  <<SubSeq(s, start, end)>> \o lines_from(s, end + 1)

SplitLines(s) == lines_from(s, 1)

\* The reader's end-of-line mark, fed after the characters of each line.
EOL == "EOL"

ReaderReset == [state |-> "START_RECORD", field |-> <<>>, fields |-> <<>>]

parse_save_field(rd, next) ==
    [state |-> next, field |-> <<>>, fields |-> Append(rd.fields, rd.field)]

parse_add_char(rd, c, next) ==
    [state |-> next, field |-> Append(rd.field, c), fields |-> rd.fields]

EndOfLine(c) == c = "\n" \/ c = "\r" \/ c = EOL

\* The reader's state machine on one character.
parse_process_char(rd, c) ==
    LET st == IF rd.state = "START_RECORD" /\ ~EndOfLine(c)
              THEN "START_FIELD" ELSE rd.state
    IN  CASE st = "START_RECORD" ->
                IF c = EOL THEN rd ELSE [rd EXCEPT !.state = "EAT_CRNL"]
          [] st = "START_FIELD" ->
                IF EndOfLine(c)
                THEN parse_save_field(rd, IF c = EOL THEN "START_RECORD" ELSE "EAT_CRNL")
                ELSE IF c = "\"" THEN [rd EXCEPT !.state = "IN_QUOTED_FIELD"]
                ELSE IF c = ";" THEN parse_save_field(rd, "START_FIELD")
                ELSE parse_add_char(rd, c, "IN_FIELD")
          [] st = "IN_FIELD" ->
                IF EndOfLine(c)
                THEN parse_save_field(rd, IF c = EOL THEN "START_RECORD" ELSE "EAT_CRNL")
                ELSE IF c = ";" THEN parse_save_field(rd, "START_FIELD")
                ELSE parse_add_char(rd, c, "IN_FIELD")
          [] st = "IN_QUOTED_FIELD" ->
                IF c = EOL THEN rd
                ELSE IF c = "\"" THEN [rd EXCEPT !.state = "QUOTE_IN_QUOTED_FIELD"]
                ELSE parse_add_char(rd, c, "IN_QUOTED_FIELD")
          [] st = "QUOTE_IN_QUOTED_FIELD" ->
                IF c = "\"" THEN parse_add_char(rd, c, "IN_QUOTED_FIELD")
                ELSE IF c = ";" THEN parse_save_field(rd, "START_FIELD")
                ELSE IF EndOfLine(c)
                THEN parse_save_field(rd, IF c = EOL THEN "START_RECORD" ELSE "EAT_CRNL")
                ELSE parse_add_char(rd, c, "IN_FIELD")
          [] st = "EAT_CRNL" ->
                IF c = "\n" \/ c = "\r" THEN rd
                ELSE IF c = EOL THEN [rd EXCEPT !.state = "START_RECORD"]
                ELSE [rd EXCEPT !.state = "ERROR"]
          [] st = "ERROR" -> rd

\* One line through the state machine from character i on, then the mark.
RECURSIVE parse_line(_, _, _)
parse_line(rd, line, i) ==
    IF i > Len(line) THEN parse_process_char(rd, EOL)
    ELSE CHOOSE out \in {parse_line(nxt, line, i + 1) :
                            nxt \in {parse_process_char(rd, line[i])}} : TRUE

\* After line i: a finished record is yielded and the reader reset; inside
\* a quoted field the record goes on with the next line.
RECURSIVE reader_rows(_, _, _, _)
reader_after_line(lines, i, rd2, out) ==
    IF rd2.state = "ERROR" THEN [raised |-> TRUE, rows |-> <<>>]
    ELSE IF rd2.state = "START_RECORD"
    THEN CHOOSE res \in {reader_rows(lines, i + 1, ReaderReset, o) :
                            o \in {Append(out, rd2.fields)}} : TRUE
    ELSE reader_rows(lines, i + 1, rd2, out)

\* The rows csv.reader yields from line i on; raised is csv.Error.
reader_rows(lines, i, rd, out) ==
    IF i > Len(lines)
    THEN [raised |-> FALSE,
          rows |-> IF rd.field # <<>> \/ rd.state = "IN_QUOTED_FIELD"
                   THEN Append(out, Append(rd.fields, rd.field)) ELSE out]
    ELSE CHOOSE res \in {reader_after_line(lines, i, rd2, out) :
                            rd2 \in {parse_line(rd, lines[i], 1)}} : TRUE

sKategori == <<"k", "a", "t", "e", "g", "o", "r", "i">>
sNama == <<"n", "a", "m", "a">>
sHarga == <<"h", "a", "r", "g", "a">>

\* row.get(key) on the dict DictReader builds: dict(zip(fieldnames, row)),
\* then None for the field names the row is too short for.
row_get(fieldnames, row, key) ==
    LET idx == {i \in 1..Len(fieldnames) : fieldnames[i] = key}
    IN  IF idx = {} THEN PyNone
        ELSE LET i == CHOOSE j \in idx : \A k \in idx : k <= j
             IN  IF i <= Len(row) THEN PyStr(row[i]) ELSE PyNone

\* int((row.get("harga") or "0").strip()), 0 for the ValueError.
parse_harga(cell) ==
    LET p == ParseSigned(strip(Or(cell, PyStr(<<"0">>)).s))
    IN  IF p.ok THEN Int_(p.n) ELSE Int_(0)

\* A variant of the loop body that keeps category and name as read.
load_row_unstripped(fieldnames, row) ==
    Row(Or(row_get(fieldnames, row, sKategori), PyStr(<<>>)),
        Or(row_get(fieldnames, row, sNama), PyStr(<<>>)),
        parse_harga(row_get(fieldnames, row, sHarga)))

\* A variant of the loop body that reads the price column as the name.
load_row_swapped(fieldnames, row) ==
    Row(PyStr(strip(Or(row_get(fieldnames, row, sKategori), PyStr(<<>>)).s)),
        PyStr(strip(Or(row_get(fieldnames, row, sHarga), PyStr(<<>>)).s)),
        parse_harga(row_get(fieldnames, row, sHarga)))

\* The body of load_csv's loop for one reader row.
load_row(fieldnames, row) ==
    Row(PyStr(strip(Or(row_get(fieldnames, row, sKategori), PyStr(<<>>)).s)),
        PyStr(strip(Or(row_get(fieldnames, row, sNama), PyStr(<<>>)).s)),
        parse_harga(row_get(fieldnames, row, sHarga)))

\* DictReader: the first reader row is the header; empty rows are skipped.
dict_rows(rows) ==
    IF rows = <<>> THEN <<>>
    ELSE CHOOSE out \in
           {[i \in 1..Len(data) |-> load_row(Head(rows), data[i])] :
               data \in {SelectSeq(Tail(rows), LAMBDA r : r # <<>>)}} : TRUE

\* load_csv(file_like), file_like a str (or the bytes of one).
load_csv(text) ==
    CHOOSE out \in
      {IF rd.raised THEN [raised |-> TRUE, rows |-> <<>>]
       ELSE [raised |-> FALSE, rows |-> dict_rows(rd.rows)] :
          rd \in {reader_rows(SplitLines(text), 1, ReaderReset, <<>>)}} : TRUE

SAMPLE_CSV ==
    <<"k", "a", "t", "e", "g", "o", "r", "i", ";", "n", "a", "m", "a", ";",
      "h", "a", "r", "g", "a", "\n">>
    \o <<"M", "a", "k", "a", "n", "a", "n", ";", "A", "y", "a", "m", " ",
         "B", "a", "k", "a", "r", ";", "2", "5", "0", "0", "0", "\n">>
    \o <<"M", "a", "k", "a", "n", "a", "n", ";", "N", "a", "s", "i", " ",
         "G", "o", "r", "e", "n", "g", ";", "1", "8", "0", "0", "0", "\n">>
    \o <<"M", "i", "n", "u", "m", "a", "n", ";", "E", "s", " ", "T", "e", "h",
         ";", "5", "0", "0", "0", "\n">>
    \o <<"M", "i", "n", "u", "m", "a", "n", ";", "J", "u", "s", " ", "A", "l",
         "p", "u", "k", "a", "t", ";", "1", "2", "0", "0", "0", "\n">>

initial_rows == load_csv(SAMPLE_CSV).rows

-----------------------------------------------------------------------------
(* The exporters.                                                          *)

RECURSIVE nat_str(_)
nat_str(n) ==
    IF n < 10 THEN <<Digits[n + 1]>>
    ELSE Append(nat_str(n \div 10), Digits[(n % 10) + 1])

\* str(n) of an int below 2^31 in magnitude.
int_str(n) == IF n < 0 THEN <<"-">> \o nat_str(0 - n) ELSE nat_str(n)

\* repr(v) of an integer-valued float below 2^31 in magnitude.
float_repr(v) == int_str(v.l) \o <<".", "0">>

\* Whether csv.writer quotes a field (QUOTE_MINIMAL): it holds the
\* delimiter, the quote character or a character of the line terminator.
needs_quote(s) == \E i \in 1..Len(s) : s[i] \in {";", "\"", "\n"}

RECURSIVE double_quotes(_)
double_quotes(s) ==
    IF s = <<>> THEN <<>>
    ELSE (IF Head(s) = "\"" THEN <<"\"", "\"">> ELSE <<Head(s)>>)
         \o double_quotes(Tail(s))

\* A variant of the writer's field that never quotes.
csv_field_unquoted(s) == s

\* One field as csv.writer writes it.
csv_field(s) ==
    IF needs_quote(s) THEN <<"\"">> \o double_quotes(s) \o <<"\"">> ELSE s

\* writer.writerow of three fields, line terminator "\n".
csv_line(f1, f2, f3) ==
    csv_field(f1) \o <<";">> \o csv_field(f2) \o <<";">> \o csv_field(f3) \o <<"\n">>

\* A str-or-None cell of an object column as to_csv writes it (na_rep '').
object_text(cell) == IF cell = PyNone THEN <<>> ELSE cell.s

\* A cell of the harga column (int or None cells) as to_csv writes it: the
\* column is int64 when every cell is an int, and float64 with NaN for None
\* otherwise.
harga_text(rows, i) ==
    LET cell == rows[i].harga
        all_int == \A j \in 1..Len(rows) : rows[j].harga.t = "int"
    IN  IF cell = PyNone THEN <<>>
        ELSE IF all_int THEN int_str(cell.l)
        ELSE float_repr(cell)

RECURSIVE csv_body(_, _)
csv_body(rows, i) ==
    IF i > Len(rows) THEN <<>>
    ELSE csv_line(object_text(rows[i].kategori), object_text(rows[i].nama),
                  harga_text(rows, i))
         \o csv_body(rows, i + 1)

\* convert_df_to_csv(pd.DataFrame(rows)) for a non-empty list of rows.
convert_df_to_csv(rows) == csv_line(sKategori, sNama, sHarga) \o csv_body(rows, 1)

RECURSIVE json_escape(_)
json_escape(s) ==
    IF s = <<>> THEN <<>>
    ELSE (CASE Head(s) = "\"" -> <<"\\", "\"">>
            [] Head(s) = "\\" -> <<"\\", "\\">>
            [] Head(s) = "\n" -> <<"\\", "n">>
            [] Head(s) = "\t" -> <<"\\", "t">>
            [] Head(s) = "\r" -> <<"\\", "r">>
            [] Head(s) = "\f" -> <<"\\", "f">>
            [] OTHER -> <<Head(s)>>)
         \o json_escape(Tail(s))

json_item(e) ==
    <<" ", " ", " ", " ", "\"">> \o json_escape(e.k) \o <<"\"", ":", " ">>
    \o float_repr(e.v)

RECURSIVE json_items(_, _)
json_items(d, i) ==
    IF i > Len(d) THEN <<>>
    ELSE json_item(d[i]) \o (IF i < Len(d) THEN <<",">> ELSE <<>>) \o <<"\n">>
         \o json_items(d, i + 1)

\* convert_summary_to_json(summary_dict): json.dumps(summary_dict, indent=4)
convert_summary_to_json(d) ==
    IF d = <<>> THEN <<"{", "}">>
    ELSE <<"{", "\n">> \o json_items(d, 1) \o <<"}">>

-----------------------------------------------------------------------------
(* The script body, run once at start and again on every interaction.      *)

\* total_all > 0 on a float
FPositive(v) == v.h > 0 \/ v.l > 0

\* A variant of the export guard that also exports a zero grand total.
data_valid_nonempty(rows, t) == Len(rows) > 0

\* not current_df.empty and (total_all > 0 or not totals)
data_valid_of(rows, t) ==
    Len(rows) > 0 /\ (FPositive(t.total_all) \/ t.totals = <<>>)

\* Lines 150-217 with st.data_editor having returned rows and
\* compute_totals(rows) having returned t.
RenderWith(rows, t) ==
    LET valid == data_valid_of(rows, t)
    IN  /\ edited_rows' = rows
        /\ menu_rows' = rows
        /\ totals' = t.totals
        /\ total_all' = t.total_all
        /\ data_valid' = valid
        /\ csv_file' = IF valid THEN PyStr(convert_df_to_csv(rows)) ELSE PyNone
        /\ json_file' = IF valid THEN PyStr(convert_summary_to_json(t.totals)) ELSE PyNone
        /\ warning' = ~valid

\* A variant of the script body whose totals start from those of the
\* previous run.
Render_carry(edited) ==
    \E rows \in {edited} :
      \E t \in {totals_loop(rows, 1, [totals |-> totals, total_all |-> total_all])} :
        RenderWith(rows, t)

\* Lines 141-217 with st.data_editor having returned edited.
Render(edited) ==
    \E rows \in {edited} : \E t \in {compute_totals(rows)} : RenderWith(rows, t)

sMakanan == <<"M", "a", "k", "a", "n", "a", "n">>
sMinuman == <<"M", "i", "n", "u", "m", "a", "n">>
sLainnya == <<"L", "a", "i", "n", "n", "y", "a">>

\* The options of the kategori column.
KategoriOptions == {sMakanan, sMinuman, sLainnya}

\* Rows the data editor can hand back for an added or changed row under
\* column_config: kategori one of the options, nama a non-empty text,
\* harga a number >= 0 or empty.
EditorRows ==
    { Row(PyStr(sLainnya), PyStr(<<"T", "e", "h">>), PyNone),
      Row(PyStr(sMakanan), PyStr(<<"T", "e", "h">>), Int_(0)),
      Row(PyStr(sMinuman), PyStr(<<" ", "T", "e", "h">>), Int_(5000)) }

\* The state after the first run: menu_rows is seeded with initial_rows and
\* the data editor hands them back unchanged.
AppInit ==
    \E rows \in {initial_rows} : \E t \in {compute_totals(rows)} :
      LET valid == data_valid_of(rows, t)
      IN
        /\ edited_rows = rows
        /\ menu_rows = rows
        /\ totals = t.totals
        /\ total_all = t.total_all
        /\ data_valid = valid
        /\ csv_file = (IF valid THEN PyStr(convert_df_to_csv(rows)) ELSE PyNone)
        /\ json_file = (IF valid THEN PyStr(convert_summary_to_json(t.totals)) ELSE PyNone)
        /\ warning = ~valid

\* No function call is under way.
Idle == arg = PyNone /\ ret = PyNone

\* The script has not run: the application holds nothing.
AppIdle ==
    /\ edited_rows = PyNone /\ menu_rows = PyNone
    /\ totals = PyNone /\ total_all = PyNone /\ data_valid = PyNone
    /\ csv_file = PyNone /\ json_file = PyNone /\ warning = PyNone

Init == AppInit /\ Idle /\ pc = "first_run"

\* The user adds a row at the end of the grid.
AddRow ==
    /\ pc \in {"first_run", "rerun"}
    /\ Len(menu_rows) < MaxMenuRows
    /\ \E r \in EditorRows : Render(Append(menu_rows, r))
    /\ pc' = "rerun"
    /\ UNCHANGED <<arg, ret>>

\* The user changes the cells of row i.
UpdateRow ==
    /\ pc \in {"first_run", "rerun"}
    /\ \E i \in 1..Len(menu_rows) : \E r \in EditorRows :
          Render([menu_rows EXCEPT ![i] = r])
    /\ pc' = "rerun"
    /\ UNCHANGED <<arg, ret>>

\* The user deletes row i.
DeleteRow ==
    /\ pc \in {"first_run", "rerun"}
    /\ \E i \in 1..Len(menu_rows) :
          Render(SubSeq(menu_rows, 1, i - 1) \o SubSeq(menu_rows, i + 1, Len(menu_rows)))
    /\ pc' = "rerun"
    /\ UNCHANGED <<arg, ret>>

\* An interaction that edits nothing (a click on a download button).
Rerun ==
    /\ pc \in {"first_run", "rerun"}
    /\ Render(menu_rows)
    /\ pc' = "rerun"
    /\ UNCHANGED <<arg, ret>>

Next == AddRow \/ UpdateRow \/ DeleteRow \/ Rerun

Spec == Init /\ [][Next]_vars

-----------------------------------------------------------------------------
(* compute_totals as a function of its argument: every sequence of up to   *)
(* MaxRows rows drawn from free-form rows (values a grid need not have     *)
(* normalised: padded or missing categories, prices as numbers, numeric    *)
(* and non-numeric strings, blanks, None).                                 *)

sTeh == <<"T", "e", "h">>

\* 2^53, the first integer whose successor is not a float.
TwoPow53 == PyInt(1, 0)

TotalsRows ==
    { Row(PyStr(sMakanan), PyStr(sTeh), Int_(5000)),
      Row(PyStr(<<" ">> \o sMakanan \o <<" ">>), PyStr(sTeh),
          PyStr(<<" ", "5", "0", "0", "0", " ">>)),
      Row(PyStr(sMinuman), PyStr(sTeh), Int_(1)),
      Row(PyStr(sMakanan), PyStr(sTeh), TwoPow53),
      Row(PyNone, PyStr(sTeh), Int_(3)),
      Row(PyStr(<<" ">>), PyStr(sTeh), PyStr(<<"7">>)),
      Row(PyStr(sMakanan), PyStr(sTeh), PyStr(<<"-", "5", "0", "0">>)),
      Row(PyStr(sMinuman), PyStr(sTeh), PyStr(<<"a", "b", "c">>)),
      Row(PyStr(sMakanan), PyStr(sTeh), PyNone),
      Row(PyStr(sMinuman), PyStr(sTeh), PyStr(<<>>)),
      Row(PyStr(<<>>), PyStr(sTeh), Int_(0)),
      Row(PyStr(sMakanan), PyStr(sTeh), Int_(-5)) }

RECURSIVE SeqsUpTo(_, _)
SeqsUpTo(S, n) ==
    IF n = 0 THEN {<<>>}
    ELSE LET shorter == SeqsUpTo(S, n - 1)
         IN  shorter \cup {Append(q, x) : q \in shorter, x \in S}

InitTotals ==
    /\ AppIdle
    /\ arg \in SeqsUpTo(TotalsRows, MaxRows)
    /\ ret = PyNone
    /\ pc = "call_totals"

CallComputeTotals ==
    /\ pc = "call_totals"
    /\ ret' = compute_totals(arg)
    /\ pc' = "done_totals"
    /\ UNCHANGED <<appVars, arg>>

NextTotals == CallComputeTotals

SpecTotals == InitTotals /\ [][NextTotals]_vars

-----------------------------------------------------------------------------
(* load_csv as a function of its argument: the header line followed by up  *)
(* to MaxLines data lines, with or without a final line break.             *)

ParseLines ==
    { sMakanan \o <<";">> \o sTeh \o <<";", "5", "0", "0", "0">>,
      <<" ">> \o sMakanan \o <<" ", ";", " ">> \o sTeh \o <<" ", ";", " ", "1", "2", " ">>,
      sMakanan \o <<";">> \o sTeh \o <<";", "-", "5", "0", "0">>,
      sMinuman \o <<";">> \o sTeh \o <<";", "a", "b", "c">>,
      sMinuman \o <<";">> \o sTeh \o <<";", " ">>,
      sMinuman \o <<";">> \o sTeh,
      <<>>,
      <<";", ";", "+", "7">>,
      <<"\"", "M", ";", "m", "\"", ";">> \o sTeh \o <<";", "9">>,
      sMakanan \o <<";">> \o sTeh \o <<";", "5", "\r", "0">>,
      sLainnya \o <<";">> \o sTeh \o <<";", "1", " ", "0", ";", "x">> }

HeaderLine == sKategori \o <<";">> \o sNama \o <<";">> \o sHarga

RECURSIVE JoinLines(_, _)
JoinLines(lines, i) ==
    IF i > Len(lines) THEN <<>>
    ELSE <<"\n">> \o lines[i] \o JoinLines(lines, i + 1)

\* The text of an input: the header, the data lines, the final line break.
TextOf(a) ==
    HeaderLine \o JoinLines(a.lines, 1) \o (IF a.nl THEN <<"\n">> ELSE <<>>)

InitParse ==
    /\ AppIdle
    /\ arg \in [lines : SeqsUpTo(ParseLines, MaxLines), nl : BOOLEAN]
    /\ ret = PyNone
    /\ pc = "call_parse"

CallLoadCsv ==
    /\ pc = "call_parse"
    /\ ret' = load_csv(TextOf(arg))
    /\ pc' = "done_parse"
    /\ UNCHANGED <<appVars, arg>>

NextParse == CallLoadCsv

SpecParse == InitParse /\ [][NextParse]_vars

-----------------------------------------------------------------------------
(* Export and re-parse: a non-empty collection of up to MaxExportRows rows *)
(* as the data editor yields them is written by convert_df_to_csv and the  *)
(* bytes are read back by load_csv.                                        *)

ExportRows ==
    { Row(PyStr(sMakanan), PyStr(sTeh), Int_(5000)),
      Row(PyStr(sMinuman), PyStr(<<" ">> \o sTeh), Int_(0)),
      Row(PyStr(sLainnya), PyStr(<<"E", "s", ";">> \o sTeh), PyNone),
      Row(PyStr(sMakanan), PyStr(<<"E", "s", " ", "\"">> \o sTeh \o <<"\"">>), PyNone),
      Row(PyStr(sMinuman), PyStr(sTeh \o <<" ">>), Int_(5000)),
      Row(PyStr(sLainnya), PyStr(<<"E", "s", "\n">> \o sTeh), Int_(0)) }

InitRoundTrip ==
    /\ AppIdle
    /\ arg \in SeqsUpTo(ExportRows, MaxExportRows) \ {<<>>}
    /\ ret = PyNone
    /\ pc = "call_export"

ExportCsv ==
    /\ pc = "call_export"
    /\ ret' = PyStr(convert_df_to_csv(arg))
    /\ pc' = "exported"
    /\ UNCHANGED <<appVars, arg>>

Reparse ==
    /\ pc = "exported"
    /\ ret' = load_csv(ret.s)
    /\ pc' = "done_roundtrip"
    /\ UNCHANGED <<appVars, arg>>

NextRoundTrip == ExportCsv \/ Reparse

SpecRoundTrip == InitRoundTrip /\ [][NextRoundTrip]_vars

-----------------------------------------------------------------------------
(* Reference notions the properties are stated with.  They are written     *)
(* declaratively; of the operators above they use only the float rounding  *)
(* (FRound, FAdd), the whitespace set and the dict keys.                    *)

\* s without its leading and trailing whitespace.
RefTrim(s) ==
    LET cuts == {c \in (1..Len(s) + 1) \X (0..Len(s)) :
                    /\ \A k \in 1..(c[1] - 1) : s[k] \in Whitespace
                    /\ \A k \in (c[2] + 1)..Len(s) : s[k] \in Whitespace
                    /\ c[1] > c[2] \/ (s[c[1]] \notin Whitespace /\ s[c[2]] \notin Whitespace)}
        c == CHOOSE c \in cuts : TRUE
    IN  IF c[1] > c[2] THEN <<>> ELSE SubSeq(s, c[1], c[2])

RefDigit ==
    ("0" :> 0) @@ ("1" :> 1) @@ ("2" :> 2) @@ ("3" :> 3) @@ ("4" :> 4) @@
    ("5" :> 5) @@ ("6" :> 6) @@ ("7" :> 7) @@ ("8" :> 8) @@ ("9" :> 9)

RefUnsigned(t) ==
    IF t # <<>> /\ t[1] \in {"+", "-"} THEN SubSeq(t, 2, Len(t)) ELSE t

\* t is an optional sign followed by one or more decimal digits.
RefIsInteger(t) ==
    /\ RefUnsigned(t) # <<>>
    /\ \A i \in 1..Len(RefUnsigned(t)) : RefUnsigned(t)[i] \in DOMAIN RefDigit

RECURSIVE RefPow10(_)
RefPow10(n) == IF n = 0 THEN 1 ELSE 10 * RefPow10(n - 1)

RECURSIVE RefWeighted(_, _)
RefWeighted(d, i) ==
    IF i > Len(d) THEN 0
    ELSE RefDigit[d[i]] * RefPow10(Len(d) - i) + RefWeighted(d, i + 1)

\* The integer an integer numeral denotes.
RefIntegerValue(t) ==
    IF t[1] = "-" THEN 0 - RefWeighted(RefUnsigned(t), 1)
    ELSE RefWeighted(RefUnsigned(t), 1)

\* Whether a price cell is valid: a number >= 0, or text that reads as one.
RefValidPrice(cell) ==
    CASE cell.t \in {"int", "float"} -> cell.h > 0 \/ cell.l >= 0
      [] cell.t = "str" ->
            /\ RefIsInteger(RefTrim(cell.s))
            /\ RefIntegerValue(RefTrim(cell.s)) >= 0
      [] OTHER -> FALSE

\* The exact value h * 2^53 + l of a valid price, as [h, l].
RefPrice(cell) ==
    IF cell.t = "str" THEN [h |-> 0, l |-> RefIntegerValue(RefTrim(cell.s))]
    ELSE [h |-> cell.h, l |-> cell.l]

RefValidRows(rows) == SelectSeq(rows, LAMBDA r : RefValidPrice(r.harga))

\* The exact (unrounded) sum of the valid prices of rows.
RECURSIVE RefExactSum(_, _)
RefExactSum(rows, i) ==
    IF i > Len(rows) THEN [h |-> 0, l |-> 0]
    ELSE LET rest == RefExactSum(rows, i + 1)
             p == RefPrice(rows[i].harga)
         IN  IF RefValidPrice(rows[i].harga)
             THEN [h |-> p.h + rest.h, l |-> p.l + rest.l] ELSE rest

\* The exact sum of the values of a dict.
RECURSIVE RefSumValues(_, _)
RefSumValues(d, i) ==
    IF i > Len(d) THEN [h |-> 0, l |-> 0]
    ELSE LET rest == RefSumValues(d, i + 1)
         IN  [h |-> d[i].v.h + rest.h, l |-> d[i].v.l + rest.l]

SameNumber(f, x) == f.h = x.h /\ f.l = x.l

\* The key a row is counted under, given the sentinel for no category.
RefKey(r, sentinel) ==
    LET c == IF r.kategori = PyNone THEN <<>> ELSE RefTrim(r.kategori.s)
    IN  IF c = <<>> THEN sentinel ELSE c

\* The float sum, in row order, of the valid prices counted under key.
RECURSIVE RefKeySum(_, _, _, _)
RefKeySum(rows, i, key, sentinel) ==
    IF i = 0 THEN PyFloat(0, 0)
    ELSE IF RefValidPrice(rows[i].harga) /\ RefKey(rows[i], sentinel) = key
    THEN FAdd(RefKeySum(rows, i - 1, key, sentinel),
              FRound(RefPrice(rows[i].harga).h, RefPrice(rows[i].harga).l))
    ELSE RefKeySum(rows, i - 1, key, sentinel)

\* The mapping holds exactly the keys of the valid rows, each with the sum
\* of its rows.
RefGroupedBy(d, rows, sentinel) ==
    /\ DictKeys(d) = {RefKey(rows[i], sentinel) :
                        i \in {j \in 1..Len(rows) : RefValidPrice(rows[j].harga)}}
    /\ \A i \in 1..Len(d) :
          /\ d[i].v = RefKeySum(rows, Len(rows), d[i].k, sentinel)
          /\ \A j \in 1..Len(d) : d[j].k = d[i].k => j = i

-----------------------------------------------------------------------------
(* C1: compute_totals' grand total and the sum of its category totals.     *)

\* C1 as stated: for every row sequence the grand total equals the sum of
\* the valid coerced prices, and the category totals sum to the grand total.
C1_SumsEqual ==
    pc = "done_totals" =>
        /\ SameNumber(ret.total_all, RefExactSum(arg, 1))
        /\ SameNumber(ret.total_all, RefSumValues(ret.totals, 1))

\* C1 amended: both equalities hold whenever the valid prices sum to less
\* than 2^53, so that every float addition is exact.
C1_SumsEqualWhenExact ==
    pc = "done_totals" /\ RefExactSum(arg, 1).h = 0 =>
        /\ SameNumber(ret.total_all, RefExactSum(arg, 1))
        /\ SameNumber(ret.total_all, RefSumValues(ret.totals, 1))

\* Two categories with valid prices and a skipped row, summed exactly.
C1_Witness ==
    /\ pc = "done_totals"
    /\ Len(arg) = 3
    /\ Len(RefValidRows(arg)) = 2
    /\ Len(ret.totals) = 2
    /\ ret.total_all = PyFloat(0, 5001)

-----------------------------------------------------------------------------
(* C2: rows with an invalid price are skipped.                             *)

\* C2: the result for a row sequence equals the result for the sequence
\* with every invalid-price row removed (a price that is negative,
\* non-numeric, empty or None); such a row is not counted as zero.
C2_InvalidRowsSkipped ==
    pc = "done_totals" => ret = compute_totals(RefValidRows(arg))

\* A "-500" row and an "abc" row next to a valid one.
C2_Witness ==
    /\ pc = "done_totals"
    /\ \E i, j, k \in 1..Len(arg) :
          /\ arg[i].harga = PyStr(<<"-", "5", "0", "0">>)
          /\ arg[j].harga = PyStr(<<"a", "b", "c">>)
          /\ RefValidPrice(arg[k].harga)
    /\ Len(ret.totals) = 1

-----------------------------------------------------------------------------
(* C3: no valid row, no totals.                                            *)

\* C3: when no row has a valid price (the empty sequence included) the
\* mapping is empty and the grand total is 0.
C3_EmptyWhenNoValidRow ==
    pc = "done_totals" /\ RefValidRows(arg) = <<>> =>
        ret.totals = <<>> /\ ret.total_all = PyFloat(0, 0)

\* Three rows, none of them valid.
C3_Witness ==
    /\ pc = "done_totals"
    /\ Len(arg) = 3
    /\ RefValidRows(arg) = <<>>
    /\ \E i \in 1..3 : arg[i].harga = PyStr(<<"-", "5", "0", "0">>)
    /\ \E i \in 1..3 : arg[i].harga = PyNone

-----------------------------------------------------------------------------
(* C4: the category key.                                                   *)

sUnknown == <<"U", "n", "k", "n", "o", "w", "n">>

KeysTrimmed(d) ==
    \A k \in DictKeys(d) :
        k # <<>> /\ k[1] \notin Whitespace /\ k[Len(k)] \notin Whitespace

\* C4 as stated: categories are trimmed, a row without category is counted
\* under the key "Unknown", no key is empty or padded, and categories that
\* differ only in surrounding whitespace share one key.
C4_SentinelUnknown ==
    pc = "done_totals" =>
        KeysTrimmed(ret.totals) /\ RefGroupedBy(ret.totals, arg, sUnknown)

\* C4 amended: the same with the sentinel key "Tidak diketahui".
C4_SentinelTidakDiketahui ==
    pc = "done_totals" =>
        KeysTrimmed(ret.totals) /\ RefGroupedBy(ret.totals, arg, sTidakDiketahui)

\* A padded and an unpadded "Makanan" share a key, and a row without
\* category is counted under the sentinel.
C4_Witness ==
    /\ pc = "done_totals"
    /\ \E i, j, k \in 1..Len(arg) :
          /\ arg[i].kategori = PyStr(sMakanan) /\ arg[i].harga = Int_(5000)
          /\ arg[j].kategori = PyStr(<<" ">> \o sMakanan \o <<" ">>)
          /\ arg[k].kategori = PyNone
    /\ DictKeys(ret.totals) = {sMakanan, sTidakDiketahui}
    /\ DictGet(ret.totals, sMakanan, PyNone) = PyFloat(0, 10000)

-----------------------------------------------------------------------------
(* What load_csv is expected to make of a data line without quotes.        *)

RefSeparators(line) == {i \in 1..Len(line) : line[i] = ";"}

\* The position of the n-th ";" of the line; 0 before the first field and
\* Len(line) + 1 after the last.
RefSeparator(line, n) ==
    IF n = 0 THEN 0
    ELSE IF n > Cardinality(RefSeparators(line)) THEN Len(line) + 1
    ELSE CHOOSE p \in RefSeparators(line) :
            Cardinality({q \in RefSeparators(line) : q < p}) = n - 1

\* The n-th field of the line, empty when the line has fewer fields.
RefField(line, n) ==
    IF n > Cardinality(RefSeparators(line)) + 1 THEN <<>>
    ELSE SubSeq(line, RefSeparator(line, n - 1) + 1, RefSeparator(line, n) - 1)

RefParsedPrice(field) ==
    IF RefIsInteger(RefTrim(field)) THEN RefIntegerValue(RefTrim(field)) ELSE 0

RefParsedRow(line) ==
    Row(PyStr(RefTrim(RefField(line, 1))), PyStr(RefTrim(RefField(line, 2))),
        Int_(RefParsedPrice(RefField(line, 3))))

NoQuote(line) == \A i \in 1..Len(line) : line[i] # "\""
NoReturn(line) == \A i \in 1..Len(line) : line[i] # "\r"
NonEmptyLines(lines) == SelectSeq(lines, LAMBDA l : l # <<>>)

-----------------------------------------------------------------------------
(* C5: the prices load_csv produces.                                       *)

\* C5: every row load_csv produces has a price >= 0, also for a data line
\* whose price field is a negative integer.
C5_ParsedPricesNonNegative ==
    pc = "done_parse" /\ ~ret.raised =>
        \A i \in 1..Len(ret.rows) : ret.rows[i].harga.l >= 0

-----------------------------------------------------------------------------
(* C6: one row per data line, with the price fallback.                     *)

-----------------------------------------------------------------------------
(* C9: export to CSV, then parse again.                                    *)

SamePairs(parsed, rows) ==
    /\ Len(parsed) = Len(rows)
    /\ \A i \in 1..Len(rows) :
          /\ parsed[i].kategori = rows[i].kategori
          /\ parsed[i].nama = rows[i].nama

NotPadded(cell) ==
    cell.s = <<>> \/ (cell.s[1] \notin Whitespace /\ cell.s[Len(cell.s)] \notin Whitespace)

\* C9 as stated: for every row collection, load_csv of the exported CSV
\* yields as many rows, in the same order, with the same category and name.
C9_RoundTrip ==
    pc = "done_roundtrip" => ~ret.raised /\ SamePairs(ret.rows, arg)

\* C9 amended: the same for every row collection whose categories and
\* names have no leading or trailing whitespace.
C9_RoundTripOfTrimmed ==
    pc = "done_roundtrip"
    /\ (\A i \in 1..Len(arg) : NotPadded(arg[i].kategori) /\ NotPadded(arg[i].nama)) =>
        ~ret.raised /\ SamePairs(ret.rows, arg)

\* Two rows whose names hold the delimiter and quotes come back unchanged.
C9_Witness ==
    /\ pc = "done_roundtrip"
    /\ Len(arg) = 2
    /\ arg[1].nama = PyStr(<<"E", "s", ";">> \o sTeh)
    /\ arg[2].nama = PyStr(<<"E", "s", " ", "\"">> \o sTeh \o <<"\"">>)
    /\ SamePairs(ret.rows, arg)

-----------------------------------------------------------------------------
(* C7, C8, C10: the application.                                           *)

Running == pc \in {"first_run", "rerun"}

ExportsOffered == csv_file # PyNone /\ json_file # PyNone
NoExportOffered == csv_file = PyNone /\ json_file = PyNone

C8_DefaultDataset ==
    pc = "first_run" =>
        /\ menu_rows =
             << Row(PyStr(sMakanan),
                    PyStr(<<"A", "y", "a", "m", " ", "B", "a", "k", "a", "r">>),
                    Int_(25000)),
                Row(PyStr(sMakanan),
                    PyStr(<<"N", "a", "s", "i", " ", "G", "o", "r", "e", "n", "g">>),
                    Int_(18000)),
                Row(PyStr(sMinuman), PyStr(<<"E", "s", " ", "T", "e", "h">>), Int_(5000)),
                Row(PyStr(sMinuman),
                    PyStr(<<"J", "u", "s", " ", "A", "l", "p", "u", "k", "a", "t">>),
                    Int_(12000)) >>
        /\ totals = << [k |-> sMakanan, v |-> PyFloat(0, 43000)],
                       [k |-> sMinuman, v |-> PyFloat(0, 17000)] >>
        /\ total_all = PyFloat(0, 60000)

\* The first run, with the default rows aggregated.
C8_Witness ==
    /\ pc = "first_run"
    /\ Len(menu_rows) = 4
    /\ Len(totals) = 2
    /\ data_valid = TRUE

\* C10: after any interactions the collection in session state is the row
\* set the latest edit returned, and the totals are those of compute_totals
\* on that collection alone.
C10_FreshTotals ==
    Running =>
        /\ menu_rows = edited_rows
        /\ [totals |-> totals, total_all |-> total_all] = compute_totals(menu_rows)

\* After edits: a fifth row was added and the totals follow.
C10_Witness ==
    /\ pc = "rerun"
    /\ Len(menu_rows) = 5
    /\ menu_rows[5].harga = Int_(5000)
    /\ SubSeq(menu_rows, 1, 4) = initial_rows
    /\ total_all = PyFloat(0, 65000)

====
